---- MODULE Spec2Model ----
(***************************************************************************)
(* Model of the vacation-provision import pipeline of RN-FERIAS:           *)
(* provisao/utils.py (processar_csv, analisar_importacao and the field     *)
(* normalisers) and provisao/views.py (importar, confirmar_importacao,     *)
(* salvar_parcela, deletar_parcela) over the tables of provisao/models.py. *)
(*                                                                         *)
(* Text is modelled over a finite vocabulary of cell strings.  Python      *)
(* string functions are tabulated over that vocabulary; dates are the      *)
(* number of days since 1899-12-30 (the epoch of excel_serial_para_data);  *)
(* decimals are whole numbers of days; a job title is operated on as its   *)
(* sequence of words.  The csv.reader split of the text into rows of cells *)
(* is taken as given: processar_csv starts from the rows.                  *)
(***************************************************************************)
EXTENDS Integers, Sequences, FiniteSets, TLC

\* ------------------------------------------------------------------ bounds
MaxCsv == 4           \* rows of a file in the parser specification
MaxParcelas == 1      \* installments ever created
MaxImportacoes == 2   \* committed imports
NumPedintes == 2      \* clients with a salvar_parcela request in progress

\* ------------------------------------------------------- program constants
NumColunas == 15
MAX_DIGITS == 5
DECIMAL_PLACES == 1

\* Absent values: Python None for a date, JSON null in the session.
DataNone == 0 - 1
JsonNull == "null"

RECURSIVE Pot10(_)
Pot10(n) == IF n = 0 THEN 1 ELSE 10 * Pot10(n - 1)

Lookup(tab, k, dflt) == IF k \in DOMAIN tab THEN tab[k] ELSE dflt

\* ------------------------------------------------------ string tabulation
\* str.strip(): the cells of the vocabulary that carry outer whitespace.
StripTab ==
    " " :> "" @@ " 101 " :> "101" @@ " 45292" :> "45292" @@ "  " :> "" @@
    " ok " :> "ok"

Strip(s) == Lookup(StripTab, s, s)

\* str.upper() of the cells that are not upper case already.
UpperTab ==
    "Funcionário" :> "FUNCIONÁRIO" @@ "Cód. funcionario" :> "CÓD. FUNCIONARIO" @@
    "Empresa" :> "EMPRESA" @@ "Relatório" :> "RELATÓRIO"

Upper(s) == Lookup(UpperTab, s, s)

\* 'FUNCION' in c, for upper-cased stripped cells.
ContemFUNCION(c) == c \in {"FUNCIONÁRIO", "CÓD. FUNCIONARIO"}

\* s[:3] of the stripped org-unit cells.
Prefixo3Tab ==
    "001 - RN TINTAS E FERR. LTDA - MATRIZ" :> "001" @@
    "002 - RN TINTAS E FERR. LTDA - TC1" :> "002" @@
    "037 - RN TINTAS NOVA" :> "037" @@
    "EMPRESA" :> "EMP" @@ "" :> ""

Prefixo3(s) == Lookup(Prefixo3Tab, s, s)

EMPRESA_MAP ==
    "001" :> "001 - RN - MATRIZ" @@ "002" :> "002 - RN - TC1" @@ "003" :> "003 - RN - TP" @@
    "004" :> "004 - RN - PA1" @@ "005" :> "005 - RN - VG1" @@ "006" :> "006 - RN - VG2" @@
    "007" :> "007 - RN - CB" @@ "008" :> "008 - RN - SR" @@ "009" :> "009 - RN - EM" @@
    "010" :> "010 - RN - PA2" @@ "011" :> "011 - RN - TC2" @@ "012" :> "012 - RN - LB" @@
    "013" :> "013 - RN - CX" @@ "014" :> "014 - RN - CP" @@ "015" :> "015 - RN - AF1" @@
    "016" :> "016 - RN - CL" @@ "017" :> "017 - RN - BE" @@ "018" :> "018 - RN - NP" @@
    "019" :> "019 - RN - LV" @@ "020" :> "020 - RN - OL" @@ "021" :> "021 - RN - SA" @@
    "022" :> "022 - RN - SG" @@ "023" :> "023 - RN - ET" @@ "024" :> "024 - RN - PD" @@
    "025" :> "025 - RN - CG" @@ "026" :> "026 - RN - CZ" @@ "027" :> "027 - RN - MC1" @@
    "028" :> "028 - RN - IT" @@ "029" :> "029 - RN - SL" @@ "030" :> "030 - RN - MS" @@
    "031" :> "031 - RN - OF" @@ "032" :> "032 - RN - JC" @@ "033" :> "033 - RN - IJ" @@
    "034" :> "034 - RN - CEN" @@ "035" :> "035 - RN - AR" @@ "036" :> "036 - RN - AF2" @@
    "038" :> "038 - RN - BM" @@ "039" :> "039 - RN - PA3" @@ "040" :> "040 - RN - PC2" @@
    "041" :> "041 - RN - ITINERANTE" @@ "043" :> "043 - RN - IN" @@ "044" :> "044 - RN - CM" @@
    "045" :> "045 - RN - PS" @@ "046" :> "046 - RN - EV" @@ "047" :> "047 - RN - PC1" @@
    "048" :> "048 - RN - AT" @@ "050" :> "050 - RN - BP" @@ "051" :> "051 - RN - AF3" @@
    "052" :> "052 - RN - LV3" @@ "053" :> "053 - RN - AF4" @@ "054" :> "054 - RN - MC3" @@
    "055" :> "055 - RN - BR" @@ "057" :> "057 - RN - IP2" @@ "058" :> "058 - RN - IP1" @@
    "059" :> "059 - RN - MG" @@ "060" :> "060 - RN - MM" @@ "061" :> "061 - RN - JG" @@
    "097" :> "097 - RN - CD PA" @@ "098" :> "098 - RN - OUTLET" @@ "099" :> "099 - RN - ECOMMERCE" @@
    "100" :> "100 - RN - CD VG"

\* f"{codigo} - RN - ???" for the prefixes the map does not hold.
SemEmpresaTab ==
    "037" :> "037 - RN - ???" @@ "EMP" :> "EMP - RN - ???" @@ "" :> " - RN - ???"

sintetizar_empresa(empresa_raw) ==
    LET codigo == Prefixo3(Strip(empresa_raw))
    IN  Lookup(EMPRESA_MAP, codigo, Lookup(SemEmpresaTab, codigo, "? - RN - ???"))

\* str.split() of the job-title cells: a title is handled as its words.
PalavrasTab ==
    "VENDEDOR II" :> <<"VENDEDOR", "II">> @@
    "VENDEDOR EXTERNO" :> <<"VENDEDOR", "EXTERNO">> @@
    "GERENTE DE LOJA G2 - III" :> <<"GERENTE", "DE", "LOJA", "G2", "-", "III">> @@
    "CAIXA IX" :> <<"CAIXA", "IX">> @@
    "CAIXA" :> <<"CAIXA">> @@
    "II" :> <<"II">> @@
    "" :> << >>

Palavras(s) == Lookup(PalavrasTab, s, <<s>>)

Romanos == {"I", "II", "III", "IIII", "IV", "V", "VI", "VII", "VIII", "IX"}
Graus == {"G1", "G2", "G3"}
\* "endash" stands for the character U+2013.
Tracos == {"-", "endash"}

_CARGO_PREFIXOS == <<
    [prefixo |-> <<"GERENTE", "DE", "LOJA">>,    canonico |-> <<"Gerente", "de", "Loja">>],
    [prefixo |-> <<"VENDEDOR">>,                 canonico |-> <<"Vendedor">>],
    [prefixo |-> <<"ASSISTENTE", "DE", "LOJA">>, canonico |-> <<"Assistente", "de", "Loja">>],
    [prefixo |-> <<"ASSISTENTE", "COMERCIAL">>,  canonico |-> <<"Assistente", "Comercial">>],
    [prefixo |-> <<"COORDENADOR", "COMERCIAL">>, canonico |-> <<"Coordenador", "Comercial">>] >>

\* str.title() word by word.
TitleTab ==
    "CAIXA" :> "Caixa" @@ "II" :> "Ii" @@ "VENDEDOR" :> "Vendedor" @@
    "EXTERNO" :> "Externo" @@ "GERENTE" :> "Gerente" @@ "DE" :> "De" @@
    "LOJA" :> "Loja"

Title(ws) == [i \in 1..Len(ws) |-> Lookup(TitleTab, ws[i], ws[i])]

\* re.sub(r'\s+(G\d+\s*[-\u2013]\s*)?(I{1,4}|IV|VI{0,3}|IX)\s*$', '', cargo): the
\* numeral must follow whitespace, so a title of one word keeps it.
SemSufixo(ws) ==
    LET n == Len(ws)
    IN  IF n >= 2 /\ ws[n] \in Romanos
        THEN IF n >= 4 /\ ws[n - 1] \in Tracos /\ ws[n - 2] \in Graus
             THEN SubSeq(ws, 1, n - 3)
             ELSE SubSeq(ws, 1, n - 1)
        ELSE ws

\* upper == prefixo or upper.startswith(prefixo + ' ')
ComecaCom(ws, prefixo) ==
    Len(ws) >= Len(prefixo) /\ SubSeq(ws, 1, Len(prefixo)) = prefixo

sintetizar_cargo(cargo_raw) ==
    LET sem_sufixo == SemSufixo(Palavras(Strip(cargo_raw)))
        upper == [i \in 1..Len(sem_sufixo) |-> Upper(sem_sufixo[i])]
        achados == {i \in 1..Len(_CARGO_PREFIXOS) : ComecaCom(upper, _CARGO_PREFIXOS[i].prefixo)}
    IN  IF achados # {}
        THEN _CARGO_PREFIXOS[CHOOSE i \in achados : \A j \in achados : i <= j].canonico
        ELSE Title(sem_sufixo)

\* ------------------------------------------------------------ dates
\* str.isdigit() and len == 5, with int(float(...)) of the cell.
Serial5Tab == "45292" :> 45292 @@ "45658" :> 45658

excel_serial_para_data(serial) == Serial5Tab[serial]

\* datetime.strptime(valor, fmt).date() for the three formats, in order.
StrptimeTab == <<
    "01/01/2024" :> 45292 @@ "31/12/2024" :> 45657 @@ "15/03/2020" :> 43905,
    "2024-01-01" :> 45292 @@ "2025-01-01" :> 45658,
    "01-01-2025" :> 45658 @@ "31-12-2025" :> 46022 >>

parse_data(valor) ==
    IF valor = "" \/ Strip(valor) \in {"", "0"}
    THEN DataNone
    ELSE LET v == Strip(valor)
             fmts == {i \in 1..Len(StrptimeTab) : v \in DOMAIN StrptimeTab[i]}
         IN  IF v \in DOMAIN Serial5Tab
             THEN excel_serial_para_data(v)
             ELSE IF fmts # {}
                  THEN StrptimeTab[CHOOSE i \in fmts : \A j \in fmts : i <= j][v]
                  ELSE DataNone

\* date.isoformat() and date.fromisoformat().
IsoTab ==
    43905 :> "2020-03-15" @@ 45292 :> "2024-01-01" @@ 45657 :> "2024-12-31" @@
    45658 :> "2025-01-01" @@ 46022 :> "2025-12-31"

isoformat(d) == IsoTab[d]

IsoOuNull(d) == IF d # DataNone THEN isoformat(d) ELSE JsonNull

fromisoformat(s) == CHOOSE d \in DOMAIN IsoTab : IsoTab[d] = s

str_para_date(s) ==
    IF s = JsonNull \/ s = "" \/ s = "None" THEN DataNone ELSE fromisoformat(s)

\* ------------------------------------------------------------ decimals
\* A Decimal is held as its number of tenths of a day (decimal_places = 1).
\* Decimal(str(valor).strip().replace(',', '.')) of the cells that parse.
DecimalTab ==
    "0" :> 0 @@ "10" :> 100 @@ "20" :> 200 @@ "30" :> 300 @@ "30,0" :> 300 @@
    "99999" :> 999990 @@ "1" :> 10 @@ "2" :> 20 @@ "2,5" :> 25

parse_decimal(valor) ==
    IF valor = "" \/ Strip(valor) = ""
    THEN 0
    ELSE Lookup(DecimalTab, Strip(valor), 0)

\* str(Decimal) and Decimal(str).
StrDecimalTab ==
    0 :> "0" @@ 10 :> "1" @@ 20 :> "2" @@ 25 :> "2.5" @@ 100 :> "10" @@ 200 :> "20" @@
    300 :> "30" @@ 999990 :> "99999"

StrDecimal(d) == StrDecimalTab[d]

Decimal(s) == CHOOSE d \in DOMAIN StrDecimalTab : StrDecimalTab[d] = s

\* int(Decimal): the whole days, truncated toward zero.
int(d) ==
    IF d >= 0
    THEN d \div Pot10(DECIMAL_PLACES)
    ELSE 0 - ((0 - d) \div Pot10(DECIMAL_PLACES))

\* ------------------------------------------------------------ processar_csv
\* State of the scan of processar_csv: the carried identity of the last row
\* that supplied its own code, the header flag and the records emitted.
CsvInicial ==
    [ cabecalho_encontrado |-> FALSE,
      ultimo_codigo   |-> "",
      ultimo_nome     |-> "",
      ultimo_cargo    |-> "",
      ultima_empresa  |-> "",
      ultima_admissao |-> DataNone,
      linhas          |-> << >> ]

\* any(linha): some cell is a non-empty string.
AnyCelula(linha) == \E i \in 1..Len(linha) : linha[i] # ""

\* while len(linha) < 15: linha.append('')
Preencher(linha) ==
    IF Len(linha) >= NumColunas
    THEN linha
    ELSE linha \o [i \in 1..(NumColunas - Len(linha)) |-> ""]

\* Mutant of Resolver: a continuation row keeps its own name cell.
ResolverSemNome(e, linha) ==
    IF Strip(linha[2]) = ""
    THEN [ codigo        |-> e.ultimo_codigo,
           nome          |-> Strip(linha[3]),
           empresa_raw   |-> e.ultima_empresa,
           cargo_raw     |-> e.ultimo_cargo,
           data_admissao |-> e.ultima_admissao ]
    ELSE [ codigo        |-> Strip(linha[2]),
           nome          |-> Strip(linha[3]),
           empresa_raw   |-> Strip(linha[1]),
           cargo_raw     |-> Strip(linha[4]),
           data_admissao |-> parse_data(linha[5]) ]

\* The identity a data row resolves to: its own, or the carried one.
Resolver(e, linha) ==
    IF Strip(linha[2]) = ""
    THEN [ codigo        |-> e.ultimo_codigo,
           nome          |-> e.ultimo_nome,
           empresa_raw   |-> e.ultima_empresa,
           cargo_raw     |-> e.ultimo_cargo,
           data_admissao |-> e.ultima_admissao ]
    ELSE [ codigo        |-> Strip(linha[2]),
           nome          |-> Strip(linha[3]),
           empresa_raw   |-> Strip(linha[1]),
           cargo_raw     |-> Strip(linha[4]),
           data_admissao |-> parse_data(linha[5]) ]

\* The carried state after a data row.
Carregar(e, linha) ==
    IF Strip(linha[2]) = ""
    THEN e
    ELSE [e EXCEPT !.ultimo_codigo   = Strip(linha[2]),
                   !.ultimo_nome     = Strip(linha[3]),
                   !.ultima_empresa  = Strip(linha[1]),
                   !.ultimo_cargo    = Strip(linha[4]),
                   !.ultima_admissao = parse_data(linha[5])]

\* The dict appended to linhas for a data row that is kept.
Registro(r, linha) ==
    [ empresa           |-> sintetizar_empresa(r.empresa_raw),
      codigo            |-> r.codigo,
      nome              |-> r.nome,
      cargo             |-> sintetizar_cargo(r.cargo_raw),
      data_admissao     |-> IsoOuNull(r.data_admissao),
      inicio_aquisitivo |-> isoformat(parse_data(linha[6])),
      fim_aquisitivo    |-> isoformat(parse_data(linha[7])),
      limite_ideal      |-> IsoOuNull(parse_data(linha[8])),
      limite_maximo     |-> IsoOuNull(parse_data(linha[9])),
      faltas            |-> StrDecimal(parse_decimal(linha[10])),
      dias_direito      |-> StrDecimal(parse_decimal(linha[11])),
      dias_gozo         |-> StrDecimal(parse_decimal(linha[12])),
      dias_restantes    |-> StrDecimal(parse_decimal(linha[13])),
      dias_programados  |-> StrDecimal(parse_decimal(linha[14])) ]

\* Mutant of Descartada: the blank-code test is missing.
DescartadaSemCodigo(r, linha) ==
    \/ parse_data(linha[6]) = DataNone
    \/ parse_data(linha[7]) = DataNone

\* A data row is dropped when a period date did not parse or the resolved
\* code is blank.
Descartada(r, linha) ==
    \/ parse_data(linha[6]) = DataNone
    \/ parse_data(linha[7]) = DataNone
    \/ r.codigo = ""

\* One iteration of the loop over the reader.
ProcessarLinha(e, linha_lida) ==
    IF ~AnyCelula(linha_lida)
    THEN e
    ELSE IF ~e.cabecalho_encontrado
    THEN [e EXCEPT !.cabecalho_encontrado =
             \E i \in 1..Len(linha_lida) : ContemFUNCION(Strip(Upper(linha_lida[i])))]
    ELSE LET linha == Preencher(linha_lida)
             r     == Resolver(e, linha)
             e2    == Carregar(e, linha)
         IN  IF Descartada(r, linha)
             THEN e2
             ELSE [e2 EXCEPT !.linhas = Append(@, Registro(r, linha))]

RECURSIVE VarrerCsv(_, _)
VarrerCsv(e, leitor) ==
    IF leitor = << >> THEN e ELSE VarrerCsv(ProcessarLinha(e, Head(leitor)), Tail(leitor))

processar_csv(leitor) == VarrerCsv(CsvInicial, leitor).linhas

\* ------------------------------------------------------ analisar_importacao
CodigosDe(linhas_csv) == {linhas_csv[i].codigo : i \in 1..Len(linhas_csv)}

\* Mutant of CodigosAtivos: the filter ativo=True is missing.
CodigosTodos(colabs) == {c.codigo : c \in colabs}

\* Colaborador.objects.filter(ativo=True).values_list('codigo', flat=True)
CodigosAtivos(colabs) == {c.codigo : c \in {x \in colabs : x.ativo}}

\* {l['codigo']: l['nome'] for l in linhas_csv if l['codigo'] in novos}: a
\* later row of the same code replaces the entry of an earlier one.
RECURSIVE NovosNomes(_, _)
NovosNomes(linhas_csv, novos) ==
    IF linhas_csv = << >>
    THEN << >>
    ELSE LET n == Len(linhas_csv)
             l == linhas_csv[n]
             antes == NovosNomes(SubSeq(linhas_csv, 1, n - 1), novos)
         IN  IF l.codigo \in novos
             THEN (l.codigo :> l.nome) @@ antes
             ELSE antes

analisar_importacao(linhas_csv, colabs) ==
    LET codigos_csv   == CodigosDe(linhas_csv)
        codigos_banco == CodigosAtivos(colabs)
        novos         == codigos_csv \ codigos_banco
        removidos     == codigos_banco \ codigos_csv
    IN  [ novos          |-> novos,
          removidos      |-> removidos,
          existentes     |-> codigos_csv \cap codigos_banco,
          novos_nomes    |-> NovosNomes(linhas_csv, novos),
          removidos_objs |-> {c \in colabs : c.codigo \in removidos} ]

\* ------------------------------------------------------------------ state
VARIABLES
    colaboradores,   \* table Colaborador: set of rows, codigo unique
    periodos,        \* table PeriodoAquisitivo: set of rows with id
    parcelas,        \* table ParcelaFerias: set of rows with id
    proxima_parcela, \* next primary key of ParcelaFerias
    importacoes,     \* table ImportacaoProvisao, in insertion order
    session,         \* request.session['linhas_csv'], << >> when absent
    resp,            \* outcome of the last request
    csv_leitor,      \* parser specification: the rows of the reader
    csv_pos,         \* parser specification: rows consumed so far
    csv,             \* parser specification: state of the scan
    pedidos          \* salvar_parcela requests in progress, one per client

vars == << colaboradores, periodos, parcelas, proxima_parcela, importacoes,
           session, resp, csv_leitor, csv_pos, csv, pedidos >>

banco == << colaboradores, periodos, parcelas, proxima_parcela, importacoes >>

csv_vars == << csv_leitor, csv_pos, csv >>

\* --------------------------------------------------------------- the ORM
\* DecimalField(max_digits=5, decimal_places=1): saving a value with more
\* integer digits than max_digits - decimal_places raises.
Armazenavel(d) == d < Pot10(MAX_DIGITS - DECIMAL_PLACES) * Pot10(DECIMAL_PLACES)

ColaboradorDe(colabs, codigo) == {c \in colabs : c.codigo = codigo}

PeriodoDe(pers, codigo, inicio) ==
    {p \in pers : p.colaborador = codigo /\ p.inicio_aquisitivo = inicio}

\* The ERP fields written to a period from a held row.
CamposErp(l) ==
    [ fim_aquisitivo   |-> str_para_date(l.fim_aquisitivo),
      limite_ideal     |-> str_para_date(l.limite_ideal),
      limite_maximo    |-> str_para_date(l.limite_maximo),
      faltas           |-> Decimal(l.faltas),
      dias_direito     |-> Decimal(l.dias_direito),
      dias_gozo        |-> Decimal(l.dias_gozo),
      dias_restantes   |-> Decimal(l.dias_restantes),
      dias_programados |-> Decimal(l.dias_programados) ]

CamposArmazenaveis(f) ==
    /\ f.fim_aquisitivo # DataNone
    /\ Armazenavel(f.faltas) /\ Armazenavel(f.dias_direito)
    /\ Armazenavel(f.dias_gozo) /\ Armazenavel(f.dias_restantes)
    /\ Armazenavel(f.dias_programados)

NovoPeriodo(id, codigo, inicio, f) ==
    [ id                |-> id,
      colaborador       |-> codigo,
      inicio_aquisitivo |-> inicio,
      fim_aquisitivo    |-> f.fim_aquisitivo,
      limite_ideal      |-> f.limite_ideal,
      limite_maximo     |-> f.limite_maximo,
      faltas            |-> f.faltas,
      dias_direito      |-> f.dias_direito,
      dias_gozo         |-> f.dias_gozo,
      dias_restantes    |-> f.dias_restantes,
      dias_programados  |-> f.dias_programados ]

\* Mutant of UpsertPeriodo: a period found is deleted and created again.
UpsertPeriodoRecriando(pers, codigo, inicio, f) ==
    LET achados == PeriodoDe(pers, codigo, inicio)
    IN  (pers \ achados) \cup {NovoPeriodo(Cardinality(pers) + 1, codigo, inicio, f)}

\* PeriodoAquisitivo.objects.get_or_create(colaborador, inicio_aquisitivo,
\* defaults) followed by the overwrite of the ERP fields of a row found.
UpsertPeriodo(pers, codigo, inicio, f) ==
    LET achados == PeriodoDe(pers, codigo, inicio)
    IN  IF achados = {}
        THEN pers \cup {NovoPeriodo(Cardinality(pers) + 1, codigo, inicio, f)}
        ELSE LET periodo == CHOOSE p \in achados : TRUE
             IN  (pers \ {periodo}) \cup {NovoPeriodo(periodo.id, codigo, inicio, f)}

\* ----------------------------------------------------- confirmar_importacao
TxInicial(colabs, pers) ==
    [ colaboradores     |-> colabs,
      periodos          |-> pers,
      novos_count       |-> 0,
      atualizados_count |-> 0,
      removidos_count   |-> 0,
      falhou            |-> FALSE ]

\* The period part of the loop body, after the employee was resolved.
LinhaPeriodo(tx, l) ==
    LET inicio_aq == str_para_date(l.inicio_aquisitivo)
        f         == CamposErp(l)
        criado    == PeriodoDe(tx.periodos, l.codigo, inicio_aq) = {}
    IN  IF ~CamposArmazenaveis(f) \/ inicio_aq = DataNone
        THEN [tx EXCEPT !.falhou = TRUE]
        ELSE [tx EXCEPT !.periodos = UpsertPeriodo(@, l.codigo, inicio_aq, f),
                        !.atualizados_count = IF criado THEN @ ELSE @ + 1]

\* Mutant of LinhaImportacao: an employee found is not set active again.
LinhaImportacaoSemAtivar(tx, l, adicionar_novos) ==
    LET achados == ColaboradorDe(tx.colaboradores, l.codigo)
        criado  == achados = {}
        novo    == [ codigo        |-> l.codigo,
                     nome          |-> l.nome,
                     cargo         |-> l.cargo,
                     empresa       |-> l.empresa,
                     data_admissao |-> str_para_date(l.data_admissao),
                     ativo         |-> TRUE ]
    IN  IF criado
        THEN IF ~adicionar_novos
             THEN [tx EXCEPT !.colaboradores = @ \cup {[novo EXCEPT !.ativo = FALSE]}]
             ELSE LinhaPeriodo([tx EXCEPT !.colaboradores = @ \cup {novo},
                                          !.novos_count = @ + 1], l)
        ELSE LET colaborador == CHOOSE c \in achados : TRUE
                 salvo == [colaborador EXCEPT !.nome = l.nome, !.cargo = l.cargo,
                                              !.empresa = l.empresa]
             IN  LinhaPeriodo([tx EXCEPT !.colaboradores = (@ \ {colaborador}) \cup {salvo},
                                         !.atualizados_count = @ + 1], l)

\* One iteration of `for l in linhas`.
LinhaImportacao(tx, l, adicionar_novos) ==
    LET achados == ColaboradorDe(tx.colaboradores, l.codigo)
        criado  == achados = {}
        novo    == [ codigo        |-> l.codigo,
                     nome          |-> l.nome,
                     cargo         |-> l.cargo,
                     empresa       |-> l.empresa,
                     data_admissao |-> str_para_date(l.data_admissao),
                     ativo         |-> TRUE ]
    IN  IF criado
        THEN IF ~adicionar_novos
             THEN [tx EXCEPT !.colaboradores = @ \cup {[novo EXCEPT !.ativo = FALSE]}]
             ELSE LinhaPeriodo([tx EXCEPT !.colaboradores = @ \cup {novo},
                                          !.novos_count = @ + 1], l)
        ELSE LET colaborador == CHOOSE c \in achados : TRUE
                 salvo == [colaborador EXCEPT !.nome = l.nome, !.cargo = l.cargo,
                                              !.empresa = l.empresa, !.ativo = TRUE]
             IN  LinhaPeriodo([tx EXCEPT !.colaboradores = (@ \ {colaborador}) \cup {salvo},
                                         !.atualizados_count = @ + 1], l)

\* The loop: an exception raised by a row ends it.
RECURSIVE LinhasImportacao(_, _, _)
LinhasImportacao(tx, linhas, adicionar_novos) ==
    IF linhas = << >> \/ tx.falhou
    THEN tx
    ELSE LinhasImportacao(LinhaImportacao(tx, Head(linhas), adicionar_novos),
                          Tail(linhas), adicionar_novos)

\* Mutant of RemoverAntigos: the filter ativo=True is missing.
RemoverAntigosSemFiltro(tx, linhas, remover_antigos) ==
    IF ~remover_antigos \/ tx.falhou
    THEN tx
    ELSE LET codigos_csv == CodigosDe(linhas)
             removidos == {c \in tx.colaboradores : c.codigo \notin codigos_csv}
         IN  [tx EXCEPT !.removidos_count = Cardinality(removidos),
                        !.colaboradores = (@ \ removidos) \cup
                              {[c EXCEPT !.ativo = FALSE] : c \in removidos}]

\* if remover_antigos: deactivate the active employees absent from the file.
RemoverAntigos(tx, linhas, remover_antigos) ==
    IF ~remover_antigos \/ tx.falhou
    THEN tx
    ELSE LET codigos_csv == CodigosDe(linhas)
             removidos == {c \in tx.colaboradores : c.ativo /\ c.codigo \notin codigos_csv}
         IN  [tx EXCEPT !.removidos_count = Cardinality(removidos),
                        !.colaboradores = (@ \ removidos) \cup
                              {[c EXCEPT !.ativo = FALSE] : c \in removidos}]

\* The body of `with transaction.atomic()`.
CorpoTransacao(colabs, pers, linhas, adicionar_novos, remover_antigos) ==
    RemoverAntigos(LinhasImportacao(TxInicial(colabs, pers), linhas, adicionar_novos),
                   linhas, remover_antigos)

\* Mutant of Atomic: the writes made before the exception stay.
AtomicSemRollback(antes, tx) == tx

\* transaction.atomic(): the writes of a body that raised are rolled back.
Atomic(antes, tx) ==
    IF tx.falhou
    THEN [tx EXCEPT !.colaboradores = antes.colaboradores, !.periodos = antes.periodos]
    ELSE tx

Transacao(colabs, pers, linhas, adicionar_novos, remover_antigos) ==
    Atomic(TxInicial(colabs, pers),
           CorpoTransacao(colabs, pers, linhas, adicionar_novos, remover_antigos))

\* Mutant of ImportacaoProvisao: total_linhas counts the rows that were applied.
ImportacaoProvisaoAplicadas(linhas, tx) ==
    [ total_linhas |-> tx.novos_count + tx.atualizados_count,
      novos        |-> tx.novos_count,
      removidos    |-> tx.removidos_count,
      atualizados  |-> tx.atualizados_count ]

\* ImportacaoProvisao.objects.create(...)
ImportacaoProvisao(linhas, tx) ==
    [ total_linhas |-> Len(linhas),
      novos        |-> tx.novos_count,
      removidos    |-> tx.removidos_count,
      atualizados  |-> tx.atualizados_count ]

\* ------------------------------------------------------------ request inputs
Cabecalho == <<"Empresa", "Cód. funcionario", "Funcionário", "Cargo">>

\* Data rows of the uploads of the main specification.
LinhaAna ==
    <<"001 - RN TINTAS E FERR. LTDA - MATRIZ", "101", "ANA", "VENDEDOR II",
      "15/03/2020", "01/01/2024", "31/12/2024", "", "", "0", "2", "0", "2", "0", "">>

LinhaContinuacao ==
    <<"", "", "", "", "", "01-01-2025", "31-12-2025", "", "", "", "1">>

LinhaAnaM ==
    <<"002 - RN TINTAS E FERR. LTDA - TC1", " 101 ", "ANA M", "CAIXA",
      "", "45292", "2025-01-01", "", "", "", "1", "1">>

LinhaBruno ==
    <<"037 - RN TINTAS NOVA", "102", "BRUNO", "VENDEDOR EXTERNO",
      "", "01/01/2024", "31/12/2024", "", "", "", "0">>

LinhaBrunoGrande ==
    <<"037 - RN TINTAS NOVA", "102", "BRUNO", "VENDEDOR EXTERNO",
      "", "01/01/2024", "31/12/2024", "", "", "", "99999">>

RECURSIVE SeqAte(_, _)
SeqAte(S, n) ==
    IF n = 0
    THEN {<< >>}
    ELSE LET menores == SeqAte(S, n - 1)
         IN  menores \cup {Append(s, x) : s \in {t \in menores : Len(t) = n - 1}, x \in S}

\* The uploads: nothing, a file with no valid row, and files of the export.
Conteudos == {
    <<Cabecalho, LinhaContinuacao>>,
    <<Cabecalho, LinhaAna, LinhaContinuacao>>,
    <<Cabecalho, LinhaAnaM>>,
    <<Cabecalho, LinhaBruno>>,
    <<Cabecalho, LinhaAna, LinhaBrunoGrande>>,
    <<Cabecalho, LinhaAna, LinhaAnaM>> }

\* mes_ferias values of the requests: len(mes) and mes[4] of each.
MesTab ==
    "2025-07" :> [len |-> 7, c4 |-> "-"] @@
    "2025/07" :> [len |-> 7, c4 |-> "/"] @@
    "20ab-cd" :> [len |-> 7, c4 |-> "-"] @@
    "2025-7"  :> [len |-> 6, c4 |-> "-"] @@
    ""        :> [len |-> 0, c4 |-> ""]

MesesPedidos == {"2025-07"}

\* dias values of the requests: absent, or text that Decimal() may reject.
DiasNone == 0 - 1
DiasTab == "1" :> 10 @@ "2" :> 20 @@ "3" :> 30
DiasPedidos == {"1"}

Observacoes == {" ok "}

\* processar_csv over the uploads, evaluated once.
LinhasDe == [c \in Conteudos |-> processar_csv(c)]

\* ------------------------------------------------------------------ importar
Importar(conteudo) ==
    LET linhas  == LinhasDe[conteudo]
        analise == analisar_importacao(linhas, colaboradores)
    IN  /\ IF conteudo = << >>
           THEN /\ resp' = [op |-> "importar", ok |-> FALSE,
                            erro |-> "Selecione um arquivo ou cole o conteúdo do CSV."]
                /\ UNCHANGED session
           ELSE IF linhas = << >>
           THEN /\ resp' = [op |-> "importar", ok |-> FALSE,
                            erro |-> "Nenhuma linha válida encontrada no CSV."]
                /\ UNCHANGED session
           ELSE /\ session' = linhas
                /\ resp' = [op |-> "importar", ok |-> TRUE,
                            total_linhas |-> Len(linhas),
                            novos |-> analise.novos,
                            removidos |-> analise.removidos,
                            existentes |-> analise.existentes,
                            novos_nomes |-> analise.novos_nomes,
                            removidos_objs |-> analise.removidos_objs]
        /\ UNCHANGED << banco, csv_vars, pedidos >>

\* ------------------------------------------------------ confirmar_importacao
\* Mutant of DelSession: the held batch is left in the session.
DelSessionEsquecido(s) == s

\* del request.session['linhas_csv']
DelSession(s) == << >>

\* Outcome of a commit that went through.
Confirmada(adicionar_novos, remover_antigos, tx) ==
    [ op |-> "confirmar_importacao", ok |-> TRUE, erro |-> "",
      adicionar_novos |-> adicionar_novos,
      remover_antigos |-> remover_antigos,
      novos_count |-> tx.novos_count,
      removidos_count |-> tx.removidos_count,
      atualizados_count |-> tx.atualizados_count ]

ConfirmarImportacao(adicionar_novos, remover_antigos) ==
    LET linhas == session
        tx == Transacao(colaboradores, periodos, linhas, adicionar_novos, remover_antigos)
    IN  IF linhas = << >>
        THEN /\ resp' = [op |-> "confirmar_importacao", ok |-> FALSE,
                         erro |-> "Sessão expirada. Faça o upload novamente."]
             /\ UNCHANGED << banco, session, csv_vars, pedidos >>
        ELSE IF tx.falhou
        THEN /\ colaboradores' = tx.colaboradores
             /\ periodos' = tx.periodos
             /\ resp' = [op |-> "confirmar_importacao", ok |-> FALSE,
                         erro |-> "exception",
                         adicionar_novos |-> adicionar_novos,
                         remover_antigos |-> remover_antigos]
             /\ UNCHANGED << parcelas, proxima_parcela, importacoes, session, csv_vars, pedidos >>
        ELSE /\ Len(importacoes) < MaxImportacoes
             /\ colaboradores' = tx.colaboradores
             /\ periodos' = tx.periodos
             /\ importacoes' = Append(importacoes, ImportacaoProvisao(linhas, tx))
             /\ session' = DelSession(session)
             /\ resp' = Confirmada(adicionar_novos, remover_antigos, tx)
             /\ UNCHANGED << parcelas, proxima_parcela, csv_vars, pedidos >>

\* ------------------------------------------------------------ salvar_parcela
ParcelasDe(pars, periodo_id) == {p \in pars : p.periodo = periodo_id}

\* sum(p.dias for p in parcelas if p.dias is not None)
RECURSIVE SomaDias(_)
SomaDias(pars) ==
    IF pars = {}
    THEN 0
    ELSE LET p == CHOOSE x \in pars : TRUE
         IN  (IF p.dias # DiasNone THEN p.dias ELSE 0) + SomaDias(pars \ {p})

\* mes = data.get('mes_ferias', '').strip() fails the format test.
MesInvalido(mes) == mes = "" \/ MesTab[mes].len # 7 \/ MesTab[mes].c4 # "-"

\* The limit test of salvar_parcela: true when the request is refused.
LimiteExcedido(periodo, pars, dias) ==
    /\ dias # DiasNone
    /\ periodo.dias_direito # 0
    /\ SomaDias(ParcelasDe(pars, periodo.id)) + dias > periodo.dias_direito

SalvarParcela(periodo_id, mes_ferias, dias_pedido, observacao) ==
    LET achados  == {p \in periodos : p.id = periodo_id}
        periodo  == CHOOSE p \in achados : TRUE
        mes      == Strip(mes_ferias)
        dias_raw == Strip(dias_pedido)
        dias     == IF dias_raw = "" THEN DiasNone ELSE DiasTab[dias_raw]
        ja_usados == SomaDias(ParcelasDe(parcelas, periodo_id))
        rejeita(status, erro) ==
            /\ resp' = [op |-> "salvar_parcela", ok |-> FALSE, status |-> status,
                        erro |-> erro, periodo |-> periodo_id]
            /\ UNCHANGED << parcelas, proxima_parcela >>
    IN  /\ IF achados = {}
           THEN rejeita(500, "No PeriodoAquisitivo matches the given query.")
           ELSE IF MesInvalido(mes)
           THEN rejeita(400, "Mês inválido. Use o formato YYYY-MM.")
           ELSE IF dias_raw # "" /\ dias_raw \notin DOMAIN DiasTab
           THEN rejeita(400, "Dias inválido.")
           ELSE IF LimiteExcedido(periodo, parcelas, dias)
           THEN /\ resp' = [op |-> "salvar_parcela", ok |-> FALSE, status |-> 400,
                            erro |-> "Limite excedido.", periodo |-> periodo_id,
                            disponiveis |-> int(periodo.dias_direito - ja_usados),
                            dias_direito |-> int(periodo.dias_direito),
                            ja_usados |-> int(ja_usados)]
                /\ UNCHANGED << parcelas, proxima_parcela >>
           ELSE /\ proxima_parcela <= MaxParcelas
                /\ parcelas' = parcelas \cup
                       {[ id |-> proxima_parcela, periodo |-> periodo_id, mes_ferias |-> mes,
                          dias |-> dias, observacao |-> Strip(observacao) ]}
                /\ proxima_parcela' = proxima_parcela + 1
                /\ resp' = [op |-> "salvar_parcela", ok |-> TRUE, status |-> 200,
                            erro |-> "", periodo |-> periodo_id, dias |-> dias,
                            dias_usados |-> SomaDias(ParcelasDe(parcelas', periodo_id)),
                            dias_direito |-> periodo.dias_direito]
        /\ UNCHANGED << colaboradores, periodos, importacoes, session, csv_vars, pedidos >>

\* ----------------------------------------------------------- deletar_parcela
DeletarParcela(parcela_id) ==
    LET achados == {p \in parcelas : p.id = parcela_id}
    IN  /\ IF achados = {}
           THEN /\ resp' = [op |-> "deletar_parcela", ok |-> FALSE, status |-> 500,
                            erro |-> "No ParcelaFerias matches the given query."]
                /\ UNCHANGED parcelas
           ELSE /\ parcelas' = parcelas \ achados
                /\ resp' = [op |-> "deletar_parcela", ok |-> TRUE, status |-> 200,
                            erro |-> ""]
        /\ UNCHANGED << colaboradores, periodos, proxima_parcela, importacoes,
                        session, csv_vars, pedidos >>

\* ------------------------------------------------------------ specification
SemResposta == [op |-> "", ok |-> FALSE, erro |-> ""]

\* Clients that may each have one salvar_parcela request in progress.
Pedintes == 1..NumPedintes

PedidoInicial ==
    [ pc |-> "inicio", periodo_id |-> 0, dias_direito |-> 0, mes |-> "",
      dias |-> DiasNone, observacao |-> "", resp |-> SemResposta ]

PedidosIniciais == [w \in Pedintes |-> PedidoInicial]

Init ==
    /\ colaboradores = {}
    /\ periodos = {}
    /\ parcelas = {}
    /\ proxima_parcela = 1
    /\ importacoes = << >>
    /\ session = << >>
    /\ resp = SemResposta
    /\ csv_leitor = << >>
    /\ csv_pos = 0
    /\ csv = CsvInicial
    /\ pedidos = PedidosIniciais

Next ==
    \/ \E conteudo \in Conteudos : Importar(conteudo)
    \/ \E adicionar_novos \in BOOLEAN, remover_antigos \in BOOLEAN :
           ConfirmarImportacao(adicionar_novos, remover_antigos)
    \/ \E periodo_id \in {p.id : p \in periodos}, mes_ferias \in MesesPedidos,
          dias_pedido \in DiasPedidos, observacao \in Observacoes :
           SalvarParcela(periodo_id, mes_ferias, dias_pedido, observacao)
    \/ \E parcela_id \in {p.id : p \in parcelas} : DeletarParcela(parcela_id)

Spec == Init /\ [][Next]_vars

\* ------------------------------------------- specification of processar_csv
\* Rows a reader may deliver: header, title line, empty line, data rows.
LinhasCsv == {
    <<"Empresa", "Cód. funcionario", "Funcionário">>,
    <<"Relatório">>,
    <<"", "", "">>,
    <<"001 - RN TINTAS E FERR. LTDA - MATRIZ", "101", "ANA", "VENDEDOR II",
      "15/03/2020", "01/01/2024", "31/12/2024", "", "", "0", "30,0">>,
    <<"002 - RN TINTAS E FERR. LTDA - TC1", "102", "BRUNO", "GERENTE DE LOJA G2 - III",
      "45292", "0", "xx">>,
    <<"", "", "", "", "", "01-01-2025", "31-12-2025", "", "", "", "10">>,
    <<"037 - RN TINTAS NOVA", " ", "CARLA", "CAIXA", "01/01/2024", " 45292", "45658">> }

InitCsv ==
    /\ colaboradores = {}
    /\ periodos = {}
    /\ parcelas = {}
    /\ proxima_parcela = 1
    /\ importacoes = << >>
    /\ session = << >>
    /\ resp = SemResposta
    /\ csv_leitor \in SeqAte(LinhasCsv, MaxCsv)
    /\ csv_pos = 0
    /\ csv = CsvInicial
    /\ pedidos = PedidosIniciais

\* for linha in reader
LerLinha ==
    /\ csv_pos < Len(csv_leitor)
    /\ csv' = ProcessarLinha(csv, csv_leitor[csv_pos + 1])
    /\ csv_pos' = csv_pos + 1
    /\ UNCHANGED << banco, session, resp, csv_leitor, pedidos >>

NextCsv == LerLinha

SpecCsv == InitCsv /\ [][NextCsv]_vars


\* ----------------------------------- specification of concurrent salvar_parcela
\* The view runs outside any transaction: each ORM call is a statement of its
\* own, and statements of requests served at the same time interleave.
LinhaAnaFracao ==
    <<"001 - RN TINTAS E FERR. LTDA - MATRIZ", "101", "ANA", "VENDEDOR II",
      "15/03/2020", "01/01/2024", "31/12/2024", "", "", "0", "2,5", "0", "2,5", "0", "">>

\* An export of one employee with periods of 2.5 and 1 days of entitlement.
ConteudoParcela == <<Cabecalho, LinhaAnaFracao, LinhaContinuacao>>

MesesParcela == {"2025-07", "2025/07"}

DiasParcela == {"1", "2", "x"}

\* Storage after the export was uploaded and committed into an empty database.
InitParcela ==
    LET linhas == processar_csv(ConteudoParcela)
        tx == Transacao({}, {}, linhas, TRUE, FALSE)
    IN  /\ colaboradores = tx.colaboradores
        /\ periodos = tx.periodos
        /\ parcelas = {}
        /\ proxima_parcela = 1
        /\ importacoes = << ImportacaoProvisao(linhas, tx) >>
        /\ session = << >>
        /\ resp = Confirmada(TRUE, FALSE, tx)
        /\ csv_leitor = << >>
        /\ csv_pos = 0
        /\ csv = CsvInicial
        /\ pedidos = PedidosIniciais

Encerrar(w, r) ==
    pedidos' = [pedidos EXCEPT ![w].pc = "fim", ![w].resp = r]

\* json.loads, get_object_or_404 and the tests of mes and dias.
ReceberPedido(w, periodo_id, mes_ferias, dias_pedido, observacao) ==
    LET periodo  == CHOOSE p \in periodos : p.id = periodo_id
        mes      == Strip(mes_ferias)
        dias_raw == Strip(dias_pedido)
        rejeita(erro) ==
            Encerrar(w, [op |-> "salvar_parcela", ok |-> FALSE, status |-> 400,
                         erro |-> erro, periodo |-> periodo_id])
    IN  /\ pedidos[w].pc = "inicio"
        /\ \E p \in periodos : p.id = periodo_id
        /\ IF MesInvalido(mes)
           THEN rejeita("Mês inválido. Use o formato YYYY-MM.")
           ELSE IF dias_raw # "" /\ dias_raw \notin DOMAIN DiasTab
           THEN rejeita("Dias inválido.")
           ELSE pedidos' = [pedidos EXCEPT ![w] =
                    [ pc |-> "validado", periodo_id |-> periodo_id,
                      dias_direito |-> periodo.dias_direito, mes |-> mes,
                      dias |-> IF dias_raw = "" THEN DiasNone ELSE DiasTab[dias_raw],
                      observacao |-> Strip(observacao), resp |-> SemResposta ]]
        /\ UNCHANGED << banco, session, resp, csv_vars >>

\* The sum over periodo.parcelas.all() and the limit test.
VerificarLimite(w) ==
    LET pedido    == pedidos[w]
        periodo   == [id |-> pedido.periodo_id, dias_direito |-> pedido.dias_direito]
        ja_usados == SomaDias(ParcelasDe(parcelas, pedido.periodo_id))
    IN  /\ pedido.pc = "validado"
        /\ IF LimiteExcedido(periodo, parcelas, pedido.dias)
           THEN Encerrar(w, [op |-> "salvar_parcela", ok |-> FALSE, status |-> 400,
                             erro |-> "Limite excedido.", periodo |-> pedido.periodo_id,
                             disponiveis |-> int(pedido.dias_direito - ja_usados),
                             dias_direito |-> int(pedido.dias_direito),
                             ja_usados |-> int(ja_usados)])
           ELSE pedidos' = [pedidos EXCEPT ![w].pc = "aprovado"]
        /\ UNCHANGED << banco, session, resp, csv_vars >>

\* ParcelaFerias.objects.create(...)
CriarParcela(w) ==
    LET pedido == pedidos[w]
    IN  /\ pedido.pc = "aprovado"
        /\ parcelas' = parcelas \cup
               {[ id |-> proxima_parcela, periodo |-> pedido.periodo_id,
                  mes_ferias |-> pedido.mes, dias |-> pedido.dias,
                  observacao |-> pedido.observacao ]}
        /\ proxima_parcela' = proxima_parcela + 1
        /\ pedidos' = [pedidos EXCEPT ![w].pc = "criado"]
        /\ UNCHANGED << colaboradores, periodos, importacoes, session, resp, csv_vars >>

\* The second read of the installments and the answer.
Responder(w) ==
    LET pedido == pedidos[w]
    IN  /\ pedido.pc = "criado"
        /\ Encerrar(w, [op |-> "salvar_parcela", ok |-> TRUE, status |-> 200,
                        erro |-> "", periodo |-> pedido.periodo_id, dias |-> pedido.dias,
                        dias_usados |-> SomaDias(ParcelasDe(parcelas, pedido.periodo_id)),
                        dias_direito |-> pedido.dias_direito])
        /\ UNCHANGED << banco, session, resp, csv_vars >>

NextParcela ==
    \/ \E w \in Pedintes, periodo_id \in {p.id : p \in periodos},
          mes_ferias \in MesesParcela, dias_pedido \in DiasParcela,
          observacao \in Observacoes :
           ReceberPedido(w, periodo_id, mes_ferias, dias_pedido, observacao)
    \/ \E w \in Pedintes : VerificarLimite(w)
    \/ \E w \in Pedintes : CriarParcela(w)
    \/ \E w \in Pedintes : Responder(w)

SpecParcela == InitParcela /\ [][NextParcela]_vars
\* ================================================================== claims
Ultimo(s) == s[Len(s)]

Codigos(colabs) == {c.codigo : c \in colabs}

Ativos(colabs) == {c.codigo : c \in {x \in colabs : x.ativo}}

ConfirmouOk(r) == r.op = "confirmar_importacao" /\ r.ok

\* The stored data the idempotence claim compares: employees with their active
\* flag, and periods by key with their date and numeric fields.
Vinculos(colabs) == {<<c.codigo, c.ativo>> : c \in colabs}

SemId(pers) ==
    {<<p.colaborador, p.inicio_aquisitivo, p.fim_aquisitivo, p.limite_ideal,
       p.limite_maximo, p.faltas, p.dias_direito, p.dias_gozo, p.dias_restantes,
       p.dias_programados>> : p \in pers}

ChaveUnica(pers) ==
    \A p \in pers, q \in pers :
        (p.colaborador = q.colaborador /\ p.inicio_aquisitivo = q.inicio_aquisitivo) => p = q

\* C1: an import commit leaves every installment as it was (same period, month,
\* day count and note) and the period it is attached to keeps its identity
\* (same employee and period start); it creates and deletes no installment.
C1_ParcelasPreservadas ==
    [][ resp'.op = "confirmar_importacao" =>
          /\ parcelas' = parcelas
          /\ \A q \in parcelas :
               \E p \in periodos, p2 \in periodos' :
                   /\ p.id = q.periodo /\ p2.id = q.periodo
                   /\ p2.colaborador = p.colaborador
                   /\ p2.inicio_aquisitivo = p.inicio_aquisitivo ]_vars

\* A commit succeeded that updated an employee and a period while an
\* installment is attached to a period.
C1_Witness ==
    /\ ConfirmouOk(resp)
    /\ resp.atualizados_count >= 2
    /\ \E q \in parcelas : \E p \in periodos : p.id = q.periodo

\* C2 (as claimed): after a successful commit, committing the same batch again
\* with the same flags leaves the employees, their active flags and the periods
\* with all their fields as they are, and no two periods share a key.
C2_Idempotente ==
    [][ ConfirmouOk(resp') =>
          LET tx2 == Transacao(colaboradores', periodos', session,
                               resp'.adicionar_novos, resp'.remover_antigos)
          IN  /\ ~tx2.falhou
              /\ Vinculos(tx2.colaboradores) = Vinculos(colaboradores')
              /\ SemId(tx2.periodos) = SemId(periodos')
              /\ ChaveUnica(periodos') /\ ChaveUnica(tx2.periodos) ]_vars

\* C3 (as claimed): after a successful creation that supplied a day count, the
\* day counts of the period's installments sum to at most its dias_direito.
C3_SomaDentroDoDireito ==
    (resp.op = "salvar_parcela" /\ resp.ok /\ resp.dias # DiasNone) =>
        \A p \in periodos :
            p.id = resp.periodo =>
                SomaDias({q \in parcelas : q.periodo = p.id}) <= p.dias_direito

\* C4 (as claimed): a commit with adicionar_novos off leaves every code of the
\* batch that storage did not hold as an inactive employee without periods, and
\* counts it neither as new nor as updated.
C4_NaoAdmitidosInativos ==
    [][ (ConfirmouOk(resp') /\ ~resp'.adicionar_novos) =>
          LET ausentes == CodigosDe(session) \ Codigos(colaboradores)
              presentes == {i \in 1..Len(session) : session[i].codigo \in Codigos(colaboradores)}
          IN  /\ \A codigo \in ausentes :
                    /\ \E c \in colaboradores' : c.codigo = codigo /\ ~c.ativo
                    /\ \A c \in colaboradores' : c.codigo = codigo => ~c.ativo
                    /\ \A p \in periodos' : p.colaborador # codigo
              /\ resp'.novos_count = 0
              /\ resp'.atualizados_count <= 2 * Cardinality(presentes) ]_vars

\* C5: a commit that fails in a row or in the deactivation step leaves the
\* employees, the periods and the import log as they were before it and keeps
\* the held batch.
C5_TudoOuNada ==
    [][ (resp'.op = "confirmar_importacao" /\ resp'.erro = "exception") =>
          /\ colaboradores' = colaboradores
          /\ periodos' = periodos
          /\ parcelas' = parcelas
          /\ importacoes' = importacoes
          /\ session' = session /\ session # << >> ]_vars

\* A commit failed at the second row of the held batch, after the first row had
\* been applied inside the transaction.
C5_Witness ==
    /\ resp.op = "confirmar_importacao" /\ resp.erro = "exception"
    /\ Len(session) = 2
    /\ Armazenavel(Decimal(session[1].dias_direito))
    /\ ~Armazenavel(Decimal(session[2].dias_direito))

\* C6: after a successful commit no employee has been deleted; with
\* remover_antigos every active employee has a code of the batch and the
\* removidos count is the number of employees switched from active to inactive;
\* without it nobody is switched to inactive and the count is 0.
C6_Desativacao ==
    [][ ConfirmouOk(resp') =>
          LET desativados == Ativos(colaboradores) \ Ativos(colaboradores')
              lote == {session[i].codigo : i \in 1..Len(session)}
          IN  /\ Codigos(colaboradores) \subseteq Codigos(colaboradores')
              /\ resp'.remover_antigos =>
                    /\ Ativos(colaboradores') \subseteq lote
                    /\ Ultimo(importacoes').removidos = Cardinality(desativados)
              /\ ~resp'.remover_antigos =>
                    /\ desativados = {}
                    /\ Ultimo(importacoes').removidos = 0 ]_vars

\* A commit with remover_antigos deactivated an employee, who is still stored.
C6_Witness ==
    /\ ConfirmouOk(resp) /\ resp.remover_antigos
    /\ Ultimo(importacoes).removidos >= 1
    /\ \E c \in colaboradores : ~c.ativo

\* C7: every step keeps the import log as a prefix of the new log; a successful
\* commit appends exactly one record whose total_linhas is the length of the
\* held batch, and no other step appends.
C7_LogSoCresce ==
    [][ /\ Len(importacoes') >= Len(importacoes)
        /\ SubSeq(importacoes', 1, Len(importacoes)) = importacoes
        /\ IF ConfirmouOk(resp')
           THEN /\ Len(importacoes') = Len(importacoes) + 1
                /\ Ultimo(importacoes').total_linhas = Len(session)
           ELSE importacoes' = importacoes ]_vars

\* A commit succeeded whose only row was skipped (employee not admitted): the
\* record still counts the row.
C7_Witness ==
    /\ ConfirmouOk(resp) /\ ~resp.adicionar_novos
    /\ Ultimo(importacoes).total_linhas = 1
    /\ Ultimo(importacoes).novos = 0 /\ Ultimo(importacoes).atualizados = 0

\* C8: a successful confirm removes the held batch; a confirm with no held
\* batch changes no table and answers with the expired-session error; so a
\* confirm writes only while a batch is held and a batch is committed once.
C8_ExatamenteUmaVez ==
    [][ resp'.op = "confirmar_importacao" =>
          /\ resp'.ok => (session # << >> /\ session' = << >>)
          /\ session = << >> =>
                /\ ~resp'.ok
                /\ resp'.erro = "Sessão expirada. Faça o upload novamente."
                /\ colaboradores' = colaboradores /\ periodos' = periodos
                /\ parcelas' = parcelas /\ importacoes' = importacoes
                /\ session' = << >> ]_vars

\* A confirm was answered with the expired-session error after an import had
\* been committed.
C8_Witness ==
    /\ resp.op = "confirmar_importacao" /\ ~resp.ok
    /\ resp.erro = "Sessão expirada. Faça o upload novamente."
    /\ importacoes # << >> /\ session = << >>

\* ------------------------------------------------------- claims on the parser
CelulaDe(linha, k) == IF k <= Len(linha) THEN linha[k] ELSE ""

EhCabecalho(linha) ==
    \E k \in 1..Len(linha) : ContemFUNCION(Strip(Upper(linha[k])))

\* Index of the first header row, or past the end.
PosCabecalho(leitor) ==
    LET hs == {j \in 1..Len(leitor) : EhCabecalho(leitor[j])}
    IN  IF hs = {} THEN Len(leitor) + 1 ELSE CHOOSE j \in hs : \A k \in hs : j <= k

\* Row i is a data row: it follows the header and has a non-empty cell.
LinhaDeDados(leitor, i) ==
    /\ i > PosCabecalho(leitor)
    /\ \E k \in 1..Len(leitor[i]) : leitor[i][k] # ""

\* Data rows before row i that supplied their own code.
Doadores(leitor, i) ==
    {j \in 1..(i - 1) : LinhaDeDados(leitor, j) /\ Strip(CelulaDe(leitor[j], 2)) # ""}

Carregado(e) ==
    << e.ultimo_codigo, e.ultimo_nome, e.ultimo_cargo, e.ultima_empresa, e.ultima_admissao >>

\* C9: a record emitted for a data row with a blank code carries the code, name,
\* hire date and canonical org-unit and title of the nearest preceding data row
\* with a code of its own, emitted or not; the carried state changes only on a
\* data row that supplies its own code.
C9_Continuacao ==
    [][ csv_pos' = csv_pos + 1 =>
          LET i == csv_pos'
              linha == csv_leitor[i]
              propria == LinhaDeDados(csv_leitor, i) /\ Strip(CelulaDe(linha, 2)) # ""
              doadores == Doadores(csv_leitor, i)
          IN  /\ Carregado(csv') # Carregado(csv) => propria
              /\ (~propria /\ Len(csv'.linhas) > Len(csv.linhas)) =>
                    /\ LinhaDeDados(csv_leitor, i)
                    /\ doadores # {}
                    /\ LET d == csv_leitor[CHOOSE j \in doadores : \A k \in doadores : k <= j]
                           r == Ultimo(csv'.linhas)
                       IN  /\ r.codigo = Strip(CelulaDe(d, 2))
                           /\ r.nome = Strip(CelulaDe(d, 3))
                           /\ r.data_admissao = IsoOuNull(parse_data(CelulaDe(d, 5)))
                           /\ r.empresa = sintetizar_empresa(CelulaDe(d, 1))
                           /\ r.cargo = sintetizar_cargo(CelulaDe(d, 4)) ]_vars

\* The row just read has a blank code and was emitted with the identity of a
\* donor row that was itself discarded (employee 102 has no parseable period).
C9_Witness ==
    /\ csv_pos >= 3
    /\ LinhaDeDados(csv_leitor, csv_pos)
    /\ Strip(CelulaDe(csv_leitor[csv_pos], 2)) = ""
    /\ csv.linhas # << >>
    /\ Ultimo(csv.linhas).codigo = "102"
    /\ Ultimo(csv.linhas).nome = "BRUNO"

\* C10: an upload that reaches the analysis changes no table, and its answer
\* has novos = batch codes not active in storage, removidos = active codes not
\* in the batch, existentes = batch codes active in storage: pairwise disjoint,
\* novos and existentes cover the batch, removidos and existentes the actives.
C10_Analise ==
    [][ resp'.op = "importar" =>
          /\ UNCHANGED banco
          /\ resp'.ok =>
                LET lote == {session'[i].codigo : i \in 1..Len(session')}
                    ativos == Ativos(colaboradores)
                IN  /\ resp'.novos = {c \in lote : c \notin ativos}
                    /\ resp'.removidos = {c \in ativos : c \notin lote}
                    /\ resp'.existentes = {c \in lote : c \in ativos}
                    /\ resp'.novos \cap resp'.removidos = {}
                    /\ resp'.novos \cap resp'.existentes = {}
                    /\ resp'.removidos \cap resp'.existentes = {}
                    /\ resp'.novos \cup resp'.existentes = lote
                    /\ resp'.removidos \cup resp'.existentes = ativos ]_vars

\* An analysis was answered with a new code that storage holds as inactive, and
\* with a removed code.
C10_Witness ==
    /\ resp.op = "importar" /\ resp.ok
    /\ resp.removidos # {}
    /\ \E c \in colaboradores : ~c.ativo /\ c.codigo \in resp.novos


\* Index of the first and of the last row of a batch that carries a code.
PrimeiraDe(linhas, codigo) ==
    CHOOSE i \in 1..Len(linhas) :
        linhas[i].codigo = codigo /\ \A j \in 1..(i - 1) : linhas[j].codigo # codigo

UltimaDe(linhas, codigo) ==
    CHOOSE i \in 1..Len(linhas) :
        linhas[i].codigo = codigo /\ \A j \in (i + 1)..Len(linhas) : linhas[j].codigo # codigo

\* C12 (as claimed): the name the analysis attaches to a new code is the name
\* of the first row of the batch that carries the code.
C12_PrimeiroNome ==
    (resp.op = "importar" /\ resp.ok) =>
        \A codigo \in resp.novos :
            resp.novos_nomes[codigo] = session[PrimeiraDe(session, codigo)].nome

\* C13: after a successful commit every employee stored before it whose code
\* is in the batch is active, has the name, title and org-unit of the last row
\* of the batch with its code, and keeps its hire date, whatever the flags.
C13_ExistentesAtualizados ==
    [][ ConfirmouOk(resp') =>
          \A c \in colaboradores :
              (\E i \in 1..Len(session) : session[i].codigo = c.codigo) =>
                  LET l == session[UltimaDe(session, c.codigo)]
                  IN  \E d \in colaboradores' :
                          /\ d.codigo = c.codigo
                          /\ d.ativo
                          /\ d.nome = l.nome /\ d.cargo = l.cargo /\ d.empresa = l.empresa
                          /\ d.data_admissao = c.data_admissao ]_vars

\* A commit with adicionar_novos off and remover_antigos on applied two rows of
\* different names to the stored employee 101, who has the name of the second
\* row and the hire date it was created with.
C13_Witness ==
    /\ ConfirmouOk(resp) /\ ~resp.adicionar_novos /\ resp.remover_antigos
    /\ resp.novos_count = 0 /\ resp.atualizados_count >= 3
    /\ \E d \in colaboradores :
          d.codigo = "101" /\ d.ativo /\ d.nome = "ANA M" /\ d.data_admissao = 43905

\* C16 (as claimed): a commit that follows the analysis of its batch with
\* storage unchanged counts as new exactly the codes of the analysis' novos
\* when adicionar_novos is on, and leaves none of them active when it is off.
C16_AnaliseConcordaComCommit ==
    [][ (resp.op = "importar" /\ resp.ok /\ ConfirmouOk(resp')) =>
          /\ resp'.adicionar_novos => Ultimo(importacoes').novos = Cardinality(resp.novos)
          /\ ~resp'.adicionar_novos => Ativos(colaboradores') \cap resp.novos = {} ]_vars

\* C14: reading a row either leaves the emitted records as they are or appends
\* one record; an appended record comes from a row after the first header
\* row, has a non-blank code and the parsed period dates of its row; a data
\* row with an unparseable period date, or with a blank code and no preceding
\* data row to inherit from, appends nothing; while no header row has been
\* read nothing is emitted.
C14_RegistrosValidos ==
    [][ csv_pos' = csv_pos + 1 =>
          LET i == csv_pos'
              linha == csv_leitor[i]
              inicio == parse_data(CelulaDe(linha, 6))
              fim == parse_data(CelulaDe(linha, 7))
              n == Len(csv.linhas)
          IN  /\ Len(csv'.linhas) \in {n, n + 1}
              /\ SubSeq(csv'.linhas, 1, n) = csv.linhas
              /\ Len(csv'.linhas) = n + 1 =>
                    /\ i > PosCabecalho(csv_leitor)
                    /\ Ultimo(csv'.linhas).codigo # ""
                    /\ inicio # DataNone /\ fim # DataNone
                    /\ Ultimo(csv'.linhas).inicio_aquisitivo = isoformat(inicio)
                    /\ Ultimo(csv'.linhas).fim_aquisitivo = isoformat(fim)
              /\ ( \/ inicio = DataNone
                   \/ fim = DataNone
                   \/ Strip(CelulaDe(linha, 2)) = "" /\ Doadores(csv_leitor, i) = {} ) =>
                    csv'.linhas = csv.linhas
              /\ PosCabecalho(csv_leitor) >= i => csv'.linhas = << >> ]_vars

\* A data row with a blank code and nothing to inherit was skipped, and the
\* row read after it was emitted as the only record.
C14_Witness ==
    /\ csv_pos >= 3
    /\ LinhaDeDados(csv_leitor, csv_pos - 1)
    /\ Strip(CelulaDe(csv_leitor[csv_pos - 1], 2)) = ""
    /\ Doadores(csv_leitor, csv_pos - 1) = {}
    /\ parse_data(CelulaDe(csv_leitor[csv_pos - 1], 6)) # DataNone
    /\ Len(csv.linhas) = 1
    /\ Ultimo(csv.linhas).codigo = "101"
    /\ Ultimo(csv.linhas).inicio_aquisitivo = "2024-01-01"

\* C11 (as claimed): a salvar_parcela request that is refused creates no
\* installment and changes no period, and when it is refused for the limit the
\* remaining capacity in the answer is the period's dias_direito minus the sum
\* of the day counts of its installments.
C11_RejeicaoSemMutacao ==
    [][ \A w \in Pedintes :
          (pedidos[w].pc # "fim" /\ pedidos'[w].pc = "fim" /\ ~pedidos'[w].resp.ok) =>
              /\ UNCHANGED banco
              /\ pedidos'[w].resp.erro = "Limite excedido." =>
                    \E p \in periodos :
                        /\ p.id = pedidos'[w].resp.periodo
                        /\ pedidos'[w].resp.disponiveis * Pot10(DECIMAL_PLACES) =
                               p.dias_direito - SomaDias({q \in parcelas : q.periodo = p.id}) ]_vars

\* C15 (as claimed): once every request in progress has been answered, the
\* day counts of each period's installments sum to at most its dias_direito.
C15_SomaSobConcorrencia ==
    (\A w \in Pedintes : pedidos[w].pc \in {"inicio", "fim"}) =>
        \A p \in periodos :
            SomaDias({q \in parcelas : q.periodo = p.id}) <= p.dias_direito
====
